---- MODULE Spec2Model ----
(***************************************************************************)
(* Offline MHTML -> single HTML converter (src/convert.js, lines 983-1402: *)
(* parseMHTML, buildPartMap, inlineCssUrlsWithMap, inlineCssImportsWithMap,*)
(* rewriteHtmlWithMap and the main build loop).                            *)
(*                                                                         *)
(* Strings.  TLC cannot take a string apart, so every string the program   *)
(* handles (a URL, a reference, a map key) is a record                     *)
(*     [k |-> kind, d |-> ..., n |-> ..., p |-> ...]                        *)
(* that spells out the parts of the string the code's regular expressions  *)
(* and URL resolution look at:                                             *)
(*   k = "abs"     https://host/<d>/<n>      (d = directory, n = name)     *)
(*   k = "rel"     <n>                       a bare token: a relative URL  *)
(*                                           or a bare content id          *)
(*   k = "weird"   https!host!<d>!<n>        converter placeholder         *)
(*   k = "cid"     cid:<n>                                                 *)
(*   k = "cidbang" cid!<n>@mhtml.blink       Chrome placeholder            *)
(*   k = "data"    data:<d>;base64,<p>       d = MIME type, p = the bytes  *)
(*   k = "dot"     .                                                       *)
(*   k = "none"    null / undefined / ""                                   *)
(*   k = "junk"    any other string: it equals no key a part registers     *)
(* A name n is a sequence of characters, so that "the text before the      *)
(* first @" is computed and not looked up.  The strings of the model carry *)
(* no white space, CR, LF or backslash.                                    *)
(*                                                                         *)
(* Bytes and text.  A buffer is a sequence of tokens [t, f, r, c]:         *)
(*   t = "byte"    an opaque byte (f names it)                             *)
(*   t = "rule"    a CSS rule without url() or @import (f names it)        *)
(*   t = "url"     a CSS declaration holding url(<r>)                      *)
(*   t = "import"  an @import rule of target r, written in the form f      *)
(*   t = "img", "script", "link", "a", "base", "style", "div"              *)
(*                 an HTML element: f its rel (link), r its src or href,   *)
(*                 c its text content (style, script) or its style         *)
(*                 attribute (div)                                         *)
(*   t = "gone"    the place of an element that was removed                *)
(* Base64 is injective, so the payload of a data: URI is the buffer.       *)
(***************************************************************************)
EXTENDS Integers, Sequences, FiniteSets, TLC

\* ------------------------------------------------------------------ bounds
\* Largest number of parts of a container.
MaxParts == 2
\* Largest number of tokens of a style sheet text.
MaxCss == 2
\* Largest number of elements of a root document.
MaxElems == 1
\* Largest number of boundary-delimited chunks of a container file.
MaxChunks == 2
\* Largest number of files glob returns.
MaxFiles == 2
\* Largest number of characters of an encoded body.
MaxBody == 3
\* Largest number of elements of a root document with base elements.
MaxBases == 2
\* Depth of the JavaScript call stack that inlineCssImportsWithMap may use
\* before the engine throws RangeError (Maximum call stack size exceeded).
MaxStack == 4

\* ----------------------------------------------------------------- strings
NoSeq == << >>

None == [k |-> "none", d |-> "", n |-> NoSeq, p |-> NoSeq]

Junk == [k |-> "junk", d |-> "", n |-> NoSeq, p |-> NoSeq]

Dot == [k |-> "dot", d |-> "", n |-> NoSeq, p |-> NoSeq]

Abs(d, n) == [k |-> "abs", d |-> d, n |-> n, p |-> NoSeq]

Rel(n) == [k |-> "rel", d |-> "", n |-> n, p |-> NoSeq]

Weird(d, n) == [k |-> "weird", d |-> d, n |-> n, p |-> NoSeq]

Cid(n) == [k |-> "cid", d |-> "", n |-> n, p |-> NoSeq]

CidBang(n) == [k |-> "cidbang", d |-> "", n |-> n, p |-> NoSeq]

Data(ct, buf) == [k |-> "data", d |-> ct, n |-> NoSeq, p |-> buf]

\* The names of the model: a, b and the message-id style a@b.
NmA == <<"a">>

NmB == <<"b">>

NmAB == <<"a", "@", "b">>

\* Truthiness of a string: null, undefined and "" are falsy.
Truthy(u) == u.k # "none"

\* normKey: (u || "").trim().replace(/[\r\n]+/g, "").replace(/\\/g, "/").
\* No string of the model holds white space, CR, LF or a backslash, so the
\* three rewrites find nothing to change; null becomes "".
normKey(u) == IF Truthy(u) THEN u ELSE None

\* normalizeWeirdUrl: https!host!a!b -> https://host/a/b.
normalizeWeirdUrl(u) ==
  IF ~Truthy(u) THEN u
  ELSE IF u.k = "weird" THEN Abs(u.d, u.n)
  ELSE u

\* /^(https?|http)!/i.test(u)
IsWeird(u) == u.k = "weird"

\* The position of the first "@" of a name, 0 when it has none.
FirstAt(n) ==
  IF \E i \in 1..Len(n) : n[i] = "@"
  THEN CHOOSE i \in 1..Len(n) : n[i] = "@" /\ \A j \in 1..(i - 1) : n[j] # "@"
  ELSE 0

\* extractCidFromWeird: /^cid!([^@]+)@/ on cid!<n>@mhtml.blink captures the
\* characters of n before its first "@" (all of n when it has none); every
\* other string of the model does not start with cid! and gives null.
extractCidFromWeird(u) ==
  IF u.k # "cidbang" THEN None
  ELSE IF FirstAt(u.n) = 0 THEN (IF Len(u.n) > 0 THEN Rel(u.n) ELSE None)
  ELSE IF FirstAt(u.n) = 1 THEN None
  ELSE Rel(SubSeq(u.n, 1, FirstAt(u.n) - 1))

\* "cid:" + u
CidPrefix(u) == IF u.k = "rel" THEN Cid(u.n) ELSE Junk

\* u.replace(/^cid:/, "")
StripCid(u) ==
  IF u.k = "cid" THEN (IF Len(u.n) > 0 THEN Rel(u.n) ELSE None) ELSE u

\* u.startsWith("cid!")
StartsCidBang(u) == u.k = "cidbang"

\* "cid!" + id + "@mhtml.blink"
BlinkForm(u) == IF u.k = "rel" THEN CidBang(u.n) ELSE Junk

\* A string the WHATWG URL parser accepts without a base.
IsAbsoluteUrl(u) == u.k \in {"abs", "cid", "data"}

\* new URL(href, base).toString().  The base is parsed first and must be an
\* absolute URL, or the constructor throws; an absolute href comes back as
\* itself; a relative href needs a hierarchical base (https://host/d/x) and
\* replaces its last path segment.  Fail stands for the TypeError.
Fail == [k |-> "fail", d |-> "", n |-> NoSeq, p |-> NoSeq]

NewURL(href, base) ==
  IF ~IsAbsoluteUrl(base) THEN Fail
  ELSE IF IsAbsoluteUrl(href) THEN href
  ELSE IF base.k # "abs" THEN Fail
  ELSE IF href.k = "rel" THEN Abs(base.d, href.n)
  ELSE Junk

\* resolveAgainst(base, href)
resolveAgainst(base, href) ==
  IF ~Truthy(href) THEN href
  ELSE IF href.k \in {"data", "cid"} THEN href
  ELSE IF IsWeird(href) THEN normalizeWeirdUrl(href)
  ELSE IF href.k = "abs" THEN href
  ELSE IF Truthy(base) /\ NewURL(href, base) # Fail THEN NewURL(href, base)
  ELSE href

\* toDataURI(buf, contentType)
toDataURI(buf, contentType) ==
  Data(IF contentType = "" THEN "application/octet-stream" ELSE contentType, buf)

\* ------------------------------------------------------------------ tokens
Tok(t, f, r, c) == [t |-> t, f |-> f, r |-> r, c |-> c]

Byte(f) == Tok("byte", f, None, NoSeq)

Rule(f) == Tok("rule", f, None, NoSeq)

Url(r) == Tok("url", "", r, NoSeq)

Import(f, r) == Tok("import", f, r, NoSeq)

\* ------------------------------------------------------------------- parts
\* One entry of the list parseMHTML returns.  text is buf decoded, which for
\* the token buffers of the model is buf itself.
Part(ct, loc, cid, buf) ==
  [contentType |-> ct, contentLocation |-> loc, contentId |-> cid, buf |-> buf]

\* p.contentType.startsWith("text/html"), over the media types of the model.
StartsWithTextHtml(ct) == ct \in {"text/html", "text/html-sandboxed"}

\* /^text\//i.test(ct)
IsTextType(ct) ==
  ct \in {"text/html", "text/html-sandboxed", "text/css", "text/javascript"}

\* ------------------------------------------------------------------- index
\* The Map of buildPartMap is a function from keys to the position of the
\* part in the list (the identity of the value object { ...p, dataURI }).
EmptyMap == [x \in {} |-> 0]

\* partMap.get(key): 0 stands for undefined.
Get(map, key) == IF key \in DOMAIN map THEN map[key] ELSE 0

\* a || b on lookup results
OrElse(a, b) == IF a # 0 THEN a ELSE b

\* addKey with byKey.set unguarded: the last registration wins.
addKeyOverwrite(map, key, value) ==
  IF ~Truthy(key) THEN map
  ELSE [x \in (DOMAIN map) \cup {key} |-> IF x = key THEN value ELSE map[x]]

\* addKey(key, value)
addKey(map, key, value) ==
  IF ~Truthy(key) THEN map
  ELSE IF key \in DOMAIN map THEN map
  ELSE [x \in (DOMAIN map) \cup {key} |-> IF x = key THEN value ELSE map[x]]

\* The loop body without lines 1163-1168: the location resolved against
\* the document base is not registered.
AddPartNoAbs(map, p, i, base) ==
  LET m1 == addKey(map, normKey(p.contentLocation), i)
      m3 == IF Truthy(p.contentId)
            THEN addKey(addKey(m1, CidPrefix(normKey(p.contentId)), i),
                        normKey(p.contentId), i)
            ELSE m1
  IN IF Truthy(p.contentId)
     THEN addKey(m3, BlinkForm(normKey(p.contentId)), i)
     ELSE m3

\* The loop body with the catch of lines 1163-1168 around the rest of the
\* body: a location that does not resolve skips the content-id keys too.
AddPartSkipsOnFail(map, p, i, base) ==
  LET m1 == addKey(map, normKey(p.contentLocation), i)
      abs == NewURL(p.contentLocation, base)
      m2 == IF Truthy(base) /\ Truthy(p.contentLocation) /\ abs # Fail
            THEN addKey(m1, normKey(abs), i)
            ELSE m1
      m3 == IF Truthy(p.contentId)
            THEN addKey(addKey(m2, CidPrefix(normKey(p.contentId)), i),
                        normKey(p.contentId), i)
            ELSE m2
      m4 == IF Truthy(p.contentId)
            THEN addKey(m3, BlinkForm(normKey(p.contentId)), i)
            ELSE m3
  IN IF Truthy(base) /\ Truthy(p.contentLocation) /\ abs = Fail THEN m1 ELSE m4

\* The body of the loop of buildPartMap for the part p at position i.
AddPart(map, p, i, base) ==
  LET m1 == addKey(map, normKey(p.contentLocation), i)
      abs == NewURL(p.contentLocation, base)
      m2 == IF Truthy(base) /\ Truthy(p.contentLocation) /\ abs # Fail
            THEN addKey(m1, normKey(abs), i)
            ELSE m1
      m3 == IF Truthy(p.contentId)
            THEN addKey(addKey(m2, CidPrefix(normKey(p.contentId)), i),
                        normKey(p.contentId), i)
            ELSE m2
      m4 == IF Truthy(p.contentId)
            THEN addKey(m3, BlinkForm(normKey(p.contentId)), i)
            ELSE m3
  IN m4

\* buildPartMap(parts, docBase), after its first k parts.
RECURSIVE BuildUpTo(_, _, _)
BuildUpTo(ps, base, k) ==
  IF k = 0 THEN EmptyMap
  ELSE AddPart(BuildUpTo(ps, base, k - 1), ps[k], k, base)

buildPartMap(ps, base) == BuildUpTo(ps, base, Len(ps))

\* hit.dataURI of the part at position i
DataURIOf(ps, i) == toDataURI(ps[i].buf, ps[i].contentType)

\* ----------------------------------------------------------------- lookups
\* link[rel=stylesheet]: the hit expression of lines 1260-1264.
HitSheet(map, base, href0) ==
  LET href == IF IsWeird(href0) THEN normalizeWeirdUrl(href0) ELSE href0
      key == normKey(resolveAgainst(base, href))
  IN OrElse(Get(map, key),
     OrElse(Get(map, href),
     OrElse(Get(map, normKey(href)),
     OrElse(Get(map, CidPrefix(href)),
            Get(map, StripCid(href))))))

\* img, script and icon: the hit expression of lines 1294-1301.
HitAsset(map, base, src0) ==
  LET src == IF IsWeird(src0) THEN normalizeWeirdUrl(src0) ELSE src0
      key == normKey(resolveAgainst(base, src))
      ex == extractCidFromWeird(src)
  IN OrElse(Get(map, key),
     OrElse(Get(map, src),
     OrElse(Get(map, normKey(src)),
     OrElse(Get(map, CidPrefix(src)),
     OrElse(Get(map, StripCid(src)),
     OrElse(IF StartsCidBang(src) THEN Get(map, src) ELSE 0,
            IF Truthy(ex) THEN Get(map, CidPrefix(ex)) ELSE 0))))))

\* a[href^="cid:"], a[href^="cid!"]: lines 1338-1341.  Other hrefs are not
\* selected.
HitAnchor(map, href) ==
  IF href.k \notin {"cid", "cidbang"} THEN 0
  ELSE LET cid == IF StartsCidBang(href) THEN extractCidFromWeird(href)
                  ELSE StripCid(href)
       IN OrElse(Get(map, CidPrefix(cid)), Get(map, cid))

\* url(...) in CSS: lines 1197-1209 (a data: argument is left before any
\* lookup).
HitCssUrl(map, base, raw0) ==
  IF raw0.k = "data" THEN 0
  ELSE LET raw == IF IsWeird(raw0) THEN normalizeWeirdUrl(raw0) ELSE raw0
           normRaw == normKey(resolveAgainst(base, raw))
       IN OrElse(Get(map, normRaw),
          OrElse(Get(map, CidPrefix(raw)),
          OrElse(Get(map, raw),
          OrElse(IF raw.k = "cid" THEN Get(map, normKey(raw)) ELSE 0,
                 IF StartsCidBang(raw) THEN Get(map, raw) ELSE 0))))

\* @import: lines 1233-1236.
HitImport(map, base, url0) ==
  LET importUrl == IF IsWeird(url0) THEN normalizeWeirdUrl(url0) ELSE url0
      target == normKey(resolveAgainst(base, importUrl))
  IN OrElse(Get(map, target),
     OrElse(Get(map, importUrl), Get(map, normKey(importUrl))))

\* ---------------------------------------------------------- root selection
\* The positions 1..Len(ps) as a sequence.
Positions(ps) == [i \in 1..Len(ps) |-> i]

\* parts.filter(p => (p.contentType || "").startsWith("text/html")), as the
\* positions of the parts kept, in file order.
RECURSIVE FilterHtml(_, _)
FilterHtml(ps, k) ==
  IF k = 0 THEN << >>
  ELSE IF StartsWithTextHtml(ps[k].contentType)
       THEN Append(FilterHtml(ps, k - 1), k)
       ELSE FilterHtml(ps, k - 1)

\* A filter that keeps every part.
htmlPartsUnfiltered(ps) == Positions(ps)

htmlParts(ps) == FilterHtml(ps, Len(ps))

\* Insertion that puts x before the elements it ties with: an unstable sort.
InsertDescBeforeTies(sorted, x, ps) ==
  LET ahead == {j \in 1..Len(sorted) :
                  Len(ps[sorted[j]].buf) > Len(ps[x].buf)}
      n == Cardinality(ahead)
  IN SubSeq(sorted, 1, n) \o <<x>> \o SubSeq(sorted, n + 1, Len(sorted))

\* One insertion of the stable sort with comparator b.buf.length - a.buf.length:
\* x goes behind every element that is at least as long.
InsertDesc(sorted, x, ps) ==
  LET ahead == {j \in 1..Len(sorted) :
                  Len(ps[sorted[j]].buf) >= Len(ps[x].buf)}
      n == Cardinality(ahead)
  IN SubSeq(sorted, 1, n) \o <<x>> \o SubSeq(sorted, n + 1, Len(sorted))

\* htmlParts.sort((a, b) => b.buf.length - a.buf.length): Array.prototype.sort
\* is stable.
RECURSIVE SortDesc(_, _, _)
SortDesc(idx, k, ps) ==
  IF k = 0 THEN << >>
  ELSE InsertDesc(SortDesc(idx, k - 1, ps), idx[k], ps)

\* rootPart = htmlParts[0] after the sort; 0 when htmlParts is empty.
SelectRoot(ps) ==
  LET h == htmlParts(ps)
  IN IF Len(h) = 0 THEN 0 ELSE SortDesc(h, Len(h), ps)[1]

\* docBase = rootPart.contentLocation || null
DocBaseOf(ps) ==
  IF SelectRoot(ps) = 0 THEN None ELSE ps[SelectRoot(ps)].contentLocation

\* --------------------------------------------------------------------- CSS
\* importRe, /@import\s+(?:url\(\s*([^)\s]+)\s*\)|(['"])(.*?)\2)\s*([^;]*);/gi,
\* over the forms in which the model writes an @import rule:
\*   "semi_url"  @import url(x);    matched, the target is group 1
\*   "semi_str"  @import "x";       matched, the target is group 3
\*   "nosp_str"  @import"x";        not matched: \s+ needs white space
\*   "eof_url"   @import url(x)     at the very end of the text, no ";"
\*                                  behind it: not matched
\* A text holds an "eof_url" rule only as its last token.
importReMatches(tok) == tok.t = "import" /\ tok.f \in {"semi_url", "semi_str"}

\* csstree.generate(csstree.parse(css)) on one token: an at-rule without a
\* block is written with its ";", and no white space is written between
\* @import and a string.
Regenerate(tok) ==
  IF tok.t # "import" THEN tok
  ELSE IF tok.f \in {"semi_url", "eof_url"} THEN [tok EXCEPT !.f = "semi_url"]
  ELSE [tok EXCEPT !.f = "nosp_str"]

\* csstree.walk finds a Url node in a url() declaration and in the prelude
\* of an @import rule written with url().
HasUrlNode(tok) ==
  \/ tok.t = "url"
  \/ tok.t = "import" /\ tok.f \in {"semi_url", "eof_url"}

\* The walk callback of inlineCssUrlsWithMap on one token, then generate.
InlineUrlToken(tok, baseHref, map, ps) ==
  LET hit == HitCssUrl(map, baseHref, tok.r)
  IN Regenerate(IF HasUrlNode(tok) /\ Truthy(tok.r) /\ hit # 0
                THEN [tok EXCEPT !.r = DataURIOf(ps, hit)]
                ELSE tok)

\* inlineCssUrlsWithMap(css, baseHref, partMap); ps is the list of parts the
\* values of the map point into.
inlineCssUrlsWithMap(css, baseHref, map, ps) ==
  [i \in 1..Len(css) |-> InlineUrlToken(css[i], baseHref, map, ps)]

\* The result of an async call: a value, or the rejection with RangeError
\* (Maximum call stack size exceeded).
Returned(v) == [ok |-> TRUE, val |-> v]

RangeError == [ok |-> FALSE, val |-> NoSeq]

\* hit.text || hit.buf.toString("utf-8")
TextOf(ps, i) == ps[i].buf

\* hit.contentLocation || baseHref
BaseOfHit(ps, i, baseHref) ==
  IF Truthy(ps[i].contentLocation) THEN ps[i].contentLocation ELSE baseHref

\* inlineCssImportsWithMap(css, baseHref, partMap) called with depth frames
\* of it already on the stack.  The loop over the matches of importRe is the
\* recursion on Tail(css); the call for an imported part is the recursion
\* with depth + 1.  An exception of a nested call rejects every caller.
RECURSIVE inlineCssImportsWithMap(_, _, _, _, _)
inlineCssImportsWithMap(css, baseHref, map, ps, depth) ==
  IF depth > MaxStack THEN RangeError
  ELSE IF css = << >> THEN Returned(css)
  ELSE
    LET tok == Head(css)
        hit == HitImport(map, baseHref, tok.r)
    IN IF ~importReMatches(tok) THEN
         LET rest == inlineCssImportsWithMap(Tail(css), baseHref, map, ps, depth)
         IN IF rest.ok THEN Returned(<<tok>> \o rest.val) ELSE RangeError
       ELSE IF hit = 0 THEN
         inlineCssImportsWithMap(Tail(css), baseHref, map, ps, depth)
       ELSE
         LET inner == inlineCssImportsWithMap(TextOf(ps, hit),
                        BaseOfHit(ps, hit, baseHref), map, ps, depth + 1)
         IN IF ~inner.ok THEN RangeError
            ELSE
              LET importedCss == inlineCssUrlsWithMap(inner.val,
                                   BaseOfHit(ps, hit, baseHref), map, ps)
                  rest == inlineCssImportsWithMap(Tail(css), baseHref, map, ps,
                                                  depth)
              IN IF rest.ok THEN Returned(importedCss \o rest.val)
                 ELSE RangeError

\* The number of @import rules left in a text.
ImportCount(css) == Cardinality({i \in 1..Len(css) : css[i].t = "import"})

\* -------------------------------------------------------------------- HTML
\* The document tree is the sequence of its elements that bear a reference
\* or a style; a removed element leaves the token Gone at its place, which
\* $.html() writes as nothing.
Elem(t, f, r, c) == Tok(t, f, r, c)

Gone == Tok("gone", "", None, NoSeq)

\* An element has the attribute src/href when r is a string.
IsSheetLink(e) == e.t = "link" /\ e.f = "stylesheet" /\ Truthy(e.r)

IsIconLink(e) ==
  e.t = "link" /\ e.f \in {"icon", "shortcut icon", "apple-touch-icon"}

IsHintLink(e) ==
  e.t = "link" /\ e.f \in {"preconnect", "dns-prefetch", "preload", "prefetch"}

\* The two calls every style sheet text goes through:
\*   css = await inlineCssImportsWithMap(css, base, partMap);
\*   css = await inlineCssUrlsWithMap(css, base, partMap);
RewriteCss(css, baseHref, map, ps) ==
  LET r == inlineCssImportsWithMap(css, baseHref, map, ps, 1)
  IN IF r.ok THEN Returned(inlineCssUrlsWithMap(r.val, baseHref, map, ps))
     ELSE RangeError

\* A base step that takes the last base[href] of the document.
FixBaseLast(d) ==
  LET bases == {i \in 1..Len(d) : d[i].t = "base" /\ Truthy(d[i].r)}
  IN IF bases = {} THEN d
     ELSE LET b == CHOOSE i \in bases : \A j \in bases : i >= j
          IN [d EXCEPT ![b].r = Dot]

\* const baseEl = $("base[href]").first(); if (baseEl.length) baseEl.attr("href", ".")
FixBase(d) ==
  LET bases == {i \in 1..Len(d) : d[i].t = "base" /\ Truthy(d[i].r)}
  IN IF bases = {} THEN d
     ELSE LET b == CHOOSE i \in bases : \A j \in bases : i <= j
          IN [d EXCEPT ![b].r = Dot]

\* One turn of the loop over link[rel="stylesheet"][href].
SheetElem(e, base, map, ps) ==
  IF ~IsSheetLink(e) THEN Returned(e)
  ELSE
    LET href == IF IsWeird(e.r) THEN normalizeWeirdUrl(e.r) ELSE e.r
        hit == HitSheet(map, base, e.r)
    IN IF hit # 0 THEN
         LET css == RewriteCss(TextOf(ps, hit), BaseOfHit(ps, hit, base), map, ps)
         IN IF css.ok THEN Returned(Elem("style", "", None, css.val))
            ELSE RangeError
       ELSE IF StartsCidBang(href) THEN Returned(Gone)
       ELSE Returned(e)

\* One turn of the loop over style.
StyleElem(e, base, map, ps) ==
  IF e.t # "style" THEN Returned(e)
  ELSE LET css == RewriteCss(e.c, base, map, ps)
       IN IF css.ok THEN Returned([e EXCEPT !.c = css.val]) ELSE RangeError

\* One turn of the loop over [style]: if (!css) continue.
StyleAttrElem(e, base, map, ps) ==
  IF e.t # "div" \/ e.c = << >> THEN e
  ELSE [e EXCEPT !.c = inlineCssUrlsWithMap(e.c, base, map, ps)]

\* A turn of the img loop that writes the resolved key back on a miss.
ImgElemResolved(e, base, map, ps) ==
  IF e.t # "img" \/ ~Truthy(e.r) THEN e
  ELSE IF HitAsset(map, base, e.r) # 0
       THEN [e EXCEPT !.r = DataURIOf(ps, HitAsset(map, base, e.r))]
       ELSE [e EXCEPT !.r = normKey(resolveAgainst(base, e.r))]

\* One turn of the loop over img[src].
ImgElem(e, base, map, ps) ==
  IF e.t # "img" \/ ~Truthy(e.r) THEN e
  ELSE IF HitAsset(map, base, e.r) # 0
       THEN [e EXCEPT !.r = DataURIOf(ps, HitAsset(map, base, e.r))]
       ELSE e

\* A turn of the script loop that sets the text and keeps the src.
ScriptElemKeepsSrc(e, base, map, ps) ==
  IF e.t # "script" \/ ~Truthy(e.r) THEN e
  ELSE IF HitAsset(map, base, e.r) # 0
       THEN [e EXCEPT !.c = TextOf(ps, HitAsset(map, base, e.r))]
       ELSE e

\* One turn of the loop over script[src]: removeAttr("src").text(js).
ScriptElem(e, base, map, ps) ==
  IF e.t # "script" \/ ~Truthy(e.r) THEN e
  ELSE IF HitAsset(map, base, e.r) # 0
       THEN [e EXCEPT !.r = None, !.c = TextOf(ps, HitAsset(map, base, e.r))]
       ELSE e

\* A turn of the icon loop that writes the payload without the part's type.
IconElemUntyped(e, base, map, ps) ==
  IF ~IsIconLink(e) THEN e
  ELSE IF HitAsset(map, base, e.r) # 0
       THEN [e EXCEPT !.r = toDataURI(ps[HitAsset(map, base, e.r)].buf, "")]
       ELSE e

\* One turn of the loop over the icon links.
IconElem(e, base, map, ps) ==
  IF ~IsIconLink(e) THEN e
  ELSE IF HitAsset(map, base, e.r) # 0
       THEN [e EXCEPT !.r = DataURIOf(ps, HitAsset(map, base, e.r))]
       ELSE e

\* One turn of the loop over a[href^="cid:"], a[href^="cid!"].
AnchorElem(e, map, ps) ==
  IF e.t # "a" THEN e
  ELSE IF HitAnchor(map, e.r) # 0
       THEN [e EXCEPT !.r = DataURIOf(ps, HitAnchor(map, e.r))]
       ELSE e

\* A removal of the hints that spares a hint whose href is relative.
HintElemAbsoluteOnly(e) ==
  IF IsHintLink(e) /\ e.r.k # "rel" THEN Gone ELSE e

\* $('link[rel="preconnect"],...').remove()
HintElem(e) == IF IsHintLink(e) THEN Gone ELSE e

\* The loops of rewriteHtmlWithMap, each over the whole document.
\* An exception in one turn rejects the run, and the later turns never run.
RECURSIVE SheetLoop(_, _, _, _)
SheetLoop(d, base, map, ps) ==
  IF d = << >> THEN Returned(d)
  ELSE LET h == SheetElem(Head(d), base, map, ps)
       IN IF ~h.ok THEN RangeError
          ELSE LET t == SheetLoop(Tail(d), base, map, ps)
               IN IF t.ok THEN Returned(<<h.val>> \o t.val) ELSE RangeError

RECURSIVE StyleLoop(_, _, _, _)
StyleLoop(d, base, map, ps) ==
  IF d = << >> THEN Returned(d)
  ELSE LET h == StyleElem(Head(d), base, map, ps)
       IN IF ~h.ok THEN RangeError
          ELSE LET t == StyleLoop(Tail(d), base, map, ps)
               IN IF t.ok THEN Returned(<<h.val>> \o t.val) ELSE RangeError

StyleAttrLoop(d, base, map, ps) ==
  [i \in 1..Len(d) |-> StyleAttrElem(d[i], base, map, ps)]

ImgLoop(d, base, map, ps) == [i \in 1..Len(d) |-> ImgElem(d[i], base, map, ps)]

ScriptLoop(d, base, map, ps) ==
  [i \in 1..Len(d) |-> ScriptElem(d[i], base, map, ps)]

IconLoop(d, base, map, ps) ==
  [i \in 1..Len(d) |-> IconElem(d[i], base, map, ps)]

AnchorLoop(d, map, ps) == [i \in 1..Len(d) |-> AnchorElem(d[i], map, ps)]

HintLoop(d) == [i \in 1..Len(d) |-> HintElem(d[i])]

\* The loops behind the style blocks, none of which can throw.
AfterStyles(d, base, map, ps) ==
  HintLoop(AnchorLoop(IconLoop(ScriptLoop(ImgLoop(
    StyleAttrLoop(d, base, map, ps), base, map, ps), base, map, ps),
    base, map, ps), map, ps))

\* rewriteHtmlWithMap(html, docBase, partMap)
rewriteHtmlWithMap(html, base, map, ps) ==
  LET s1 == SheetLoop(FixBase(html), base, map, ps)
  IN IF ~s1.ok THEN RangeError
     ELSE LET s2 == StyleLoop(s1.val, base, map, ps)
          IN IF ~s2.ok THEN RangeError
             ELSE Returned(AfterStyles(s2.val, base, map, ps))

\* The messages of the errors the conversion of a file throws.
NoHeaderSection == "Invalid MHTML: no header section"

NoBoundary == "Invalid MHTML: no boundary"

NoHtmlPart == "No text/html part found"

StackExceeded == "Maximum call stack size exceeded"

\* ------------------------------------------------------------------- state
VARIABLES
  \* the files glob returned, each as its lines
  files,
  \* the position in files of the file the main loop is at
  fi,
  \* the directory dist: the pairs <<i, html>> of the index.html written for
  \* file i, and <<0, << >> >> for the landing page
  dist,
  \* the lines of the file the main loop reads
  container,
  \* the error the conversion of the file threw ("" while none)
  err,
  \* whether dist/<base>/index.html has been written
  written,
  \* the list parseMHTML returned
  parts,
  \* the position of rootPart in parts (0 before it is chosen)
  rootIdx,
  \* docBase of the main loop
  docBase,
  \* the Map under construction in buildPartMap, then partMap
  byKey,
  \* the position of the part buildPartMap handles next
  bi,
  \* where the program stands
  pc,
  \* the css text a call of the CSS rewriter works on
  cssText,
  \* baseHref of that call
  cssBase,
  \* the document tree $ of rewriteHtmlWithMap
  doc,
  \* the string the first run of rewriteHtmlWithMap returned
  first,
  \* 1 in the first run of rewriteHtmlWithMap, 2 in the run on its output
  pass,
  \* layout test: the pages browser.newPage() returned, in the order of
  \* their creation, each "setup", "ready" (fn is called on it) or "closed"
  pages,
  \* layout test: the requests the handler of the latest page has seen
  reqs,
  \* layout test: 1 in the call of withOfflinePage that renders the MHTML
  \* file, 2 in the call that renders the single file
  call,
  \* layout test: how the body of withOfflinePage ends, "value" or "error"
  pending,
  \* layout test: what each call of withOfflinePage passed to its caller
  delivered,
  \* layout test: <<diffPixels, total>> of diffPNGs
  diff

vars ==
  <<files, fi, dist, container, err, written, parts, rootIdx, docBase, byKey, bi, pc, cssText,
    cssBase, doc, first, pass, pages, reqs, call, pending, delivered, diff>>

\* The variables of the layout test, and their values in the converter.
layoutVars == <<pages, reqs, call, pending, delivered, diff>>

NoLayout ==
  /\ pages = << >>
  /\ reqs = {}
  /\ call = 0
  /\ pending = "none"
  /\ delivered = << >>
  /\ diff = <<0, 1>>

\* The variables of the loop over the files.
batchVars == <<files, fi, dist>>

\* The variables of the main loop around the stages.
fileVars == <<container, err, written>>

\* The variables of the index, of a CSS rewriter call and of the HTML rewriter.
indexVars == <<parts, rootIdx, docBase, byKey, bi>>

cssVars == <<cssText, cssBase>>

htmlVars == <<doc, first, pass>>

\* -------------------------------------------------------- index: the inputs
IndexLocs == {None, Abs("", NmA), Abs("s", NmA), Rel(NmA), Rel(NmB), Cid(NmA)}

IndexIds == {None, Rel(NmA), Rel(NmAB)}

\* The parts of the index runs: the bytes of a part are named after its
\* media type and location, an HTML part is two bytes long.
IndexPart(ct, loc, cid) ==
  Part(ct, loc, cid,
       IF ct = "text/html" THEN <<Byte(loc.k), Byte("h")>> ELSE <<Byte(loc.k)>>)

IndexParts ==
  {IndexPart(ct, loc, cid) :
     ct \in {"text/html", "image/png"}, loc \in IndexLocs, cid \in IndexIds}

RECURSIVE SeqsUpTo(_, _)
SeqsUpTo(S, n) ==
  IF n = 0 THEN {<< >>}
  ELSE LET shorter == SeqsUpTo(S, n - 1)
       IN shorter \cup {Append(q, x) : q \in {r \in shorter : Len(r) = n - 1}, x \in S}

IndexPartLists == {ps \in SeqsUpTo(IndexParts, MaxParts) : SelectRoot(ps) # 0}

\* ------------------------------------------------------ index: buildPartMap
\* The main loop has parsed the container and chosen the root part.
InitIndex ==
  /\ NoLayout
  /\ files = << >>
  /\ fi = 0
  /\ dist = {}
  /\ container = NoSeq
  /\ err = ""
  /\ written = FALSE
  /\ parts \in IndexPartLists
  /\ rootIdx = SelectRoot(parts)
  /\ docBase = DocBaseOf(parts)
  /\ byKey = EmptyMap
  /\ bi = 1
  /\ pc = "build"
  /\ cssText = NoSeq
  /\ cssBase = None
  /\ doc = NoSeq
  /\ first = NoSeq
  /\ pass = 0

\* One turn of the loop of buildPartMap.
BuildStep ==
  /\ pc = "build"
  /\ bi <= Len(parts)
  /\ byKey' = AddPart(byKey, parts[bi], bi, docBase)
  /\ bi' = bi + 1
  /\ UNCHANGED <<layoutVars, batchVars, fileVars, parts, rootIdx, docBase,
                 pc, cssVars,
                 htmlVars>>

\* return byKey
BuildDone ==
  /\ pc = "build"
  /\ bi > Len(parts)
  /\ pc' = "rewrite"
  /\ UNCHANGED <<layoutVars, batchVars, fileVars, indexVars, cssVars, htmlVars>>

NextIndex == BuildStep \/ BuildDone

SpecIndex == InitIndex /\ [][NextIndex]_vars

\* ------------------------------------------------------------ index: claims
\* The keys under which buildPartMap tries to register the part p.
KeysOf(p, base) == DOMAIN AddPart(EmptyMap, p, 1, base)

\* The part at position i holds every key it registers.
OwnsItsKeys(i) == \A k \in KeysOf(parts[i], docBase) : Get(byKey, k) = i

\* The spellings of a reference to the part p that C4 names: its location
\* verbatim, that location resolved against the document base, and cid:<id>.
SpellingsOf(p, base) ==
  (IF Truthy(p.contentLocation) THEN {p.contentLocation} ELSE {})
  \cup (IF Truthy(p.contentLocation) /\ Truthy(base)
           /\ NewURL(p.contentLocation, base) # Fail
        THEN {NewURL(p.contentLocation, base)} ELSE {})
  \cup (IF Truthy(p.contentLocation) /\ Truthy(p.contentId)
        THEN {CidPrefix(p.contentId)} ELSE {})

\* The part a reference r resolves to in each position where the rewriter
\* looks one up with the document base.
HitsOf(r) ==
  {HitAsset(byKey, docBase, r), HitSheet(byKey, docBase, r),
   HitCssUrl(byKey, docBase, r), HitImport(byKey, docBase, r)}

\* C3: first registration wins -- while buildPartMap runs, a key that maps
\* to a part keeps mapping to that part whatever is registered later.
C3_FirstRegistrationWins ==
  [][\A k \in DOMAIN byKey : k \in DOMAIN byKey' /\ byKey'[k] = byKey[k]]_vars

\* C3 witness: the second part tried to register a key the first part holds.
C3_Witness ==
  /\ bi > 2
  /\ \E k \in KeysOf(parts[2], docBase) : Get(byKey, k) = 1

C5_PlaceholderEquivalence ==
  pc = "rewrite" =>
    \A i \in 1..Len(parts) :
      (Truthy(parts[i].contentId) /\ OwnsItsKeys(i)) =>
        LET id == parts[i].contentId
        IN /\ HitAsset(byKey, docBase, BlinkForm(id)) = i
           /\ HitAsset(byKey, docBase, CidPrefix(id)) = i
           /\ HitSheet(byKey, docBase, BlinkForm(id)) = i
           /\ HitSheet(byKey, docBase, CidPrefix(id)) = i
           /\ HitCssUrl(byKey, docBase, BlinkForm(id)) = i
           /\ HitCssUrl(byKey, docBase, CidPrefix(id)) = i
           /\ HitAnchor(byKey, BlinkForm(id)) = i
           /\ HitAnchor(byKey, CidPrefix(id)) = i

\* The key k leads to the part at position i, or to an earlier part that
\* registered k before it.
ReachableUnder(k, i) == Get(byKey, k) # 0 /\ Get(byKey, k) <= i

\* The location of the part p does not resolve against the document base.
Unresolvable(p) ==
  Truthy(docBase) /\ Truthy(p.contentLocation)
  /\ NewURL(p.contentLocation, docBase) = Fail

\* C24: buildPartMap always returns, and then every part with a location is
\* reachable under that location and, when it resolves, under the location
\* resolved against the document base, and every part with a content id is
\* reachable under cid:<id> and cid!<id>@mhtml.blink, unless an earlier part
\* owns the key.
C24_PartsReachable ==
  /\ pc \in {"build", "rewrite"}
  /\ pc = "rewrite" =>
       \A i \in 1..Len(parts) :
         LET p == parts[i]
         IN /\ Truthy(p.contentLocation) =>
                 ReachableUnder(normKey(p.contentLocation), i)
            /\ (Truthy(p.contentLocation) /\ Truthy(docBase) /\ ~Unresolvable(p)) =>
                 ReachableUnder(normKey(NewURL(p.contentLocation, docBase)), i)
            /\ Truthy(p.contentId) =>
                 /\ ReachableUnder(CidPrefix(normKey(p.contentId)), i)
                 /\ ReachableUnder(BlinkForm(normKey(p.contentId)), i)

\* The index is built, and a part whose location did not resolve against the
\* document base holds its location and its two content-id keys.
C24_Witness ==
  /\ pc = "rewrite"
  /\ \E i \in 1..Len(parts) :
       /\ Unresolvable(parts[i])
       /\ Truthy(parts[i].contentId)
       /\ Get(byKey, normKey(parts[i].contentLocation)) = i
       /\ Get(byKey, CidPrefix(normKey(parts[i].contentId))) = i
       /\ Get(byKey, BlinkForm(normKey(parts[i].contentId))) = i

\* ---------------------------------------------------------- CSS: the inputs
\* Style sheet tokens of the runs: a rule, a url() that hits part b, @import
\* rules of parts a and b and of a target c no part has, an @import without
\* white space and an @import that ends the text without ";".
CssTokens ==
  {Rule("r"), Url(Rel(NmB)),
   Import("semi_url", Rel(NmA)), Import("semi_str", Rel(NmB)),
   Import("semi_url", Rel(<<"c">>)), Import("nosp_str", Rel(NmB))}

CssLastTokens == CssTokens \cup {Import("eof_url", Rel(NmB))}

\* The texts of at most n tokens.
CssTexts(n) ==
  {<< >>} \cup
  {q \o <<x>> : q \in {r \in SeqsUpTo(CssTokens, n) : Len(r) < n},
                x \in CssLastTokens}

\* A container of a root document at https://host/index and the style
\* sheets https://host/a and https://host/b.
CssPartList(ta, tb) ==
  << Part("text/html", Abs("", <<"i">>), None, <<Byte("h")>>),
     Part("text/css", Abs("", NmA), None, ta),
     Part("text/css", Abs("", NmB), None, tb) >>

\* ------------------------------------------------------- CSS: rewriter call
\* rewriteHtmlWithMap reaches a <style> block whose text is the text of
\* part a (base: docBase), or a stylesheet link that hit part a (base: the
\* location of part a).
InitCss ==
  /\ NoLayout
  /\ files = << >>
  /\ fi = 0
  /\ dist = {}
  /\ container = NoSeq
  /\ err = ""
  /\ written = FALSE
  /\ \E ta \in CssTexts(MaxCss), tb \in CssTexts(MaxCss - 1) :
       parts = CssPartList(ta, tb)
  /\ rootIdx = SelectRoot(parts)
  /\ docBase = DocBaseOf(parts)
  /\ byKey = buildPartMap(parts, docBase)
  /\ bi = Len(parts) + 1
  /\ pc = "css-imports"
  /\ cssText = parts[2].buf
  /\ cssBase \in {docBase, BaseOfHit(parts, 2, docBase)}
  /\ doc = NoSeq
  /\ first = NoSeq
  /\ pass = 0

\* css = await inlineCssImportsWithMap(css, base, partMap): it returns.
CssImportsReturn ==
  /\ pc = "css-imports"
  /\ inlineCssImportsWithMap(cssText, cssBase, byKey, parts, 1).ok
  /\ cssText' = inlineCssImportsWithMap(cssText, cssBase, byKey, parts, 1).val
  /\ pc' = "css-urls"
  /\ UNCHANGED <<layoutVars, batchVars, fileVars, indexVars, cssBase, htmlVars>>

\* css = await inlineCssImportsWithMap(css, base, partMap): it rejects.
CssImportsThrow ==
  /\ pc = "css-imports"
  /\ ~inlineCssImportsWithMap(cssText, cssBase, byKey, parts, 1).ok
  /\ pc' = "css-error"
  /\ UNCHANGED <<layoutVars, batchVars, fileVars, indexVars, cssVars, htmlVars>>

\* css = await inlineCssUrlsWithMap(css, base, partMap)
CssUrls ==
  /\ pc = "css-urls"
  /\ cssText' = inlineCssUrlsWithMap(cssText, cssBase, byKey, parts)
  /\ pc' = "css-done"
  /\ UNCHANGED <<layoutVars, batchVars, fileVars, indexVars, cssBase, htmlVars>>

NextCss == CssImportsReturn \/ CssImportsThrow \/ CssUrls

SpecCss == InitCss /\ [][NextCss]_vars

\* -------------------------------------------------------------- CSS: claims
\* The part at position i holds an @import that importRe matches and that
\* resolves to the part at position j.
ImportsPart(i, j) ==
  \E x \in 1..Len(parts[i].buf) :
    /\ importReMatches(parts[i].buf[x])
    /\ HitImport(byKey, BaseOfHit(parts, i, docBase), parts[i].buf[x].r) = j

\* C1 as stated: when part a imports part b and part b imports part a, the
\* call of inlineCssImportsWithMap on the text of a returns.
C1_CyclicImportsReturn ==
  (ImportsPart(2, 3) /\ ImportsPart(3, 2)) => pc # "css-error"

\* C2 as stated: after the CSS rewriting of a style sheet the text holds no
\* @import rule.
C2_NoImportLeft == pc = "css-done" => ImportCount(cssText) = 0

\* What the token tok of a text with base b becomes when every @import rule
\* is handled: a rule that hit no part is dropped, a rule that hit a part is
\* the rewritten text of that part (base: the part's location), any other
\* token stays.
SplicedFor(tok, b) ==
  LET hit == HitImport(byKey, b, tok.r)
  IN IF tok.t # "import" THEN <<tok>>
     ELSE IF hit = 0 THEN << >>
     ELSE RewriteCss(TextOf(parts, hit), BaseOfHit(parts, hit, b), byKey,
                     parts).val

\* The pieces of the tokens of css, in the order of css.
RECURSIVE SplicedText(_, _)
SplicedText(css, b) ==
  IF css = << >> THEN << >>
  ELSE SplicedFor(Head(css), b) \o SplicedText(Tail(css), b)

\* C21: when inlineCssImportsWithMap has returned, its result is the text it
\* was given with each @import rule that missed dropped and each @import rule
\* that hit replaced, at its place, by the rewritten text of the part.
C21_ImportsSplicedInPlace ==
  pc = "css-urls" => cssText = SplicedText(parts[2].buf, cssBase)

\* --------------------------------------------------------- HTML: the inputs
\* References of the runs: a.css (the style sheet part), cid:a@b and
\* cid!a@b@mhtml.blink (the image part), a placeholder and a URL that no part
\* has, the https!host!b placeholder of the image part, and the absolute URL
\* of the style sheet part in the directory s.
HtmlRefs ==
  {Rel(NmA), Cid(NmAB), CidBang(NmAB), CidBang(<<"c">>), Abs("", <<"c">>),
   Weird("", NmB), Abs("s", NmA)}

\* Texts of <style> blocks.
StyleTexts ==
  {<<Rule("r")>>, <<Url(Rel(NmB))>>, <<Url(Abs("", <<"c">>))>>,
   <<Import("semi_url", Rel(NmA))>>, <<Import("semi_str", Rel(<<"c">>))>>,
   <<Import("nosp_str", Rel(NmA))>>, <<Import("eof_url", Rel(NmB))>>,
   <<Import("eof_url", Rel(<<"c">>))>>}

\* Values of style attributes.
StyleAttrs == {<<Url(Rel(NmB))>>, <<Url(Abs("", <<"c">>))>>}

\* Texts of the style sheet part: one with a url() that hits and one that
\* misses, one that imports a missing sheet, one that imports itself.
SheetTexts ==
  {<<Rule("r"), Url(Rel(NmB)), Url(Abs("", <<"c">>))>>,
   <<Import("semi_url", Rel(<<"c">>)), Rule("r")>>,
   <<Import("semi_url", Rel(NmA))>>}

HtmlElements ==
  {Elem(t, "", r, NoSeq) : t \in {"img", "script", "a", "base"}, r \in HtmlRefs}
  \cup {Elem("link", f, r, NoSeq) :
          f \in {"stylesheet", "icon", "preload"}, r \in HtmlRefs}
  \cup {Elem("style", "", None, c) : c \in StyleTexts}
  \cup {Elem("div", "", None, c) : c \in StyleAttrs}

\* A container of the root document d at https://host/i, the style sheet
\* https://host/a, the image https://host/b with Content-ID <a@b>, and the
\* style sheet https://host/s/a whose url(b) names https://host/s/b.
HtmlPartList(d, ta) ==
  << Part("text/html", Abs("", <<"i">>), None, d),
     Part("text/css", Abs("", NmA), None, ta),
     Part("image/png", Abs("", NmB), Rel(NmAB), <<Byte("g")>>),
     Part("text/css", Abs("s", NmA), None, <<Url(Rel(NmB))>>) >>

\* ------------------------------------------------- HTML: rewriteHtmlWithMap
\* The main loop calls rewriteHtmlWithMap(html0, docBase, partMap).
InitHtml ==
  /\ NoLayout
  /\ files = << >>
  /\ fi = 0
  /\ dist = {}
  /\ container = NoSeq
  /\ err = ""
  /\ written = FALSE
  /\ \E d \in SeqsUpTo(HtmlElements, MaxElems), ta \in SheetTexts :
       parts = HtmlPartList(d, ta)
  /\ rootIdx = SelectRoot(parts)
  /\ docBase = DocBaseOf(parts)
  /\ byKey = buildPartMap(parts, docBase)
  /\ bi = Len(parts) + 1
  /\ pc = "h-base"
  /\ cssText = NoSeq
  /\ cssBase = None
  /\ doc = TextOf(parts, rootIdx)
  /\ first = NoSeq
  /\ pass = 1

HtmlBase ==
  /\ pc = "h-base"
  /\ doc' = FixBase(doc)
  /\ pc' = "h-sheets"
  /\ UNCHANGED <<layoutVars, batchVars, fileVars, indexVars, cssVars, first,
                 pass>>

HtmlSheets ==
  /\ pc = "h-sheets"
  /\ SheetLoop(doc, docBase, byKey, parts).ok
  /\ doc' = SheetLoop(doc, docBase, byKey, parts).val
  /\ pc' = "h-styles"
  /\ UNCHANGED <<layoutVars, batchVars, fileVars, indexVars, cssVars, first,
                 pass>>

HtmlSheetsThrow ==
  /\ pc = "h-sheets"
  /\ ~SheetLoop(doc, docBase, byKey, parts).ok
  /\ err' = StackExceeded
  /\ pc' = "failed"
  /\ UNCHANGED <<layoutVars, batchVars, container, written, indexVars,
                 cssVars, htmlVars>>

HtmlStyles ==
  /\ pc = "h-styles"
  /\ StyleLoop(doc, docBase, byKey, parts).ok
  /\ doc' = StyleLoop(doc, docBase, byKey, parts).val
  /\ pc' = "h-attrs"
  /\ UNCHANGED <<layoutVars, batchVars, fileVars, indexVars, cssVars, first,
                 pass>>

HtmlStylesThrow ==
  /\ pc = "h-styles"
  /\ ~StyleLoop(doc, docBase, byKey, parts).ok
  /\ err' = StackExceeded
  /\ pc' = "failed"
  /\ UNCHANGED <<layoutVars, batchVars, container, written, indexVars,
                 cssVars, htmlVars>>

HtmlStyleAttrs ==
  /\ pc = "h-attrs"
  /\ doc' = StyleAttrLoop(doc, docBase, byKey, parts)
  /\ pc' = "h-imgs"
  /\ UNCHANGED <<layoutVars, batchVars, fileVars, indexVars, cssVars, first,
                 pass>>

\* The img loop with a lookup that forgets the index behind it.
HtmlImagesForgetful ==
  /\ pc = "h-imgs"
  /\ doc' = ImgLoop(doc, docBase, byKey, parts)
  /\ byKey' = EmptyMap
  /\ pc' = "h-scripts"
  /\ UNCHANGED <<layoutVars, batchVars, fileVars, parts, rootIdx, docBase, bi,
                 cssVars,
                 first, pass>>

HtmlImages ==
  /\ pc = "h-imgs"
  /\ doc' = ImgLoop(doc, docBase, byKey, parts)
  /\ pc' = "h-scripts"
  /\ UNCHANGED <<layoutVars, batchVars, fileVars, indexVars, cssVars, first,
                 pass>>

HtmlScripts ==
  /\ pc = "h-scripts"
  /\ doc' = ScriptLoop(doc, docBase, byKey, parts)
  /\ pc' = "h-icons"
  /\ UNCHANGED <<layoutVars, batchVars, fileVars, indexVars, cssVars, first,
                 pass>>

HtmlIcons ==
  /\ pc = "h-icons"
  /\ doc' = IconLoop(doc, docBase, byKey, parts)
  /\ pc' = "h-anchors"
  /\ UNCHANGED <<layoutVars, batchVars, fileVars, indexVars, cssVars, first,
                 pass>>

HtmlAnchors ==
  /\ pc = "h-anchors"
  /\ doc' = AnchorLoop(doc, byKey, parts)
  /\ pc' = "h-hints"
  /\ UNCHANGED <<layoutVars, batchVars, fileVars, indexVars, cssVars, first,
                 pass>>

\* The hints are removed and $.html() is returned; the second run starts on
\* the string the first run returned.
HtmlHintsReturn ==
  /\ pc = "h-hints"
  /\ pass = 1
  /\ doc' = HintLoop(doc)
  /\ first' = HintLoop(doc)
  /\ pass' = 2
  /\ pc' = "h-base"
  /\ UNCHANGED <<layoutVars, batchVars, fileVars, indexVars, cssVars>>

HtmlHintsReturnAgain ==
  /\ pc = "h-hints"
  /\ pass = 2
  /\ doc' = HintLoop(doc)
  /\ pc' = "h-done"
  /\ UNCHANGED <<layoutVars, batchVars, fileVars, indexVars, cssVars, first,
                 pass>>

NextHtml ==
  \/ HtmlBase \/ HtmlSheets \/ HtmlSheetsThrow \/ HtmlStyles \/ HtmlStylesThrow
  \/ HtmlStyleAttrs \/ HtmlImages \/ HtmlScripts \/ HtmlIcons \/ HtmlAnchors
  \/ HtmlHintsReturn \/ HtmlHintsReturnAgain

SpecHtml == InitHtml /\ [][NextHtml]_vars

\* ------------------------------------------------------------ HTML: claims
\* The document the rewriter was given.
Input == TextOf(parts, rootIdx)

\* r matches no part under any of the lookups of the rewriter, from base b.
MissesEvery(b, r) ==
  /\ HitSheet(byKey, b, r) = 0
  /\ HitAsset(byKey, b, r) = 0
  /\ HitCssUrl(byKey, b, r) = 0
  /\ HitImport(byKey, b, r) = 0
  /\ HitAnchor(byKey, r) = 0

\* The token tok of a style sheet text is in the text css, as it was written
\* or as csstree.generate writes it.
KeptIn(tok, css) ==
  \E k \in 1..Len(css) : css[k] = tok \/ css[k] = Regenerate(tok)

\* The element e carries a reference in src/href that is not a hint's.
CarriesRef(e) ==
  /\ e.t \in {"img", "script", "a", "link"}
  /\ ~IsHintLink(e)
  /\ Truthy(e.r)

LookupsTotal ==
  \A r \in HtmlRefs \cup {None, Dot} : \A b \in {docBase, None} :
    /\ HitSheet(byKey, b, r) \in 0..Len(parts)
    /\ HitAsset(byKey, b, r) \in 0..Len(parts)
    /\ HitCssUrl(byKey, b, r) \in 0..Len(parts)
    /\ HitImport(byKey, b, r) \in 0..Len(parts)
    /\ HitAnchor(byKey, r) \in 0..Len(parts)

\* C13: no step of the rewriter changes a key of the part map or a part, and
\* every lookup gives a hit or a miss.
C13_IndexReadOnly ==
  [][byKey' = byKey /\ parts' = parts]_vars /\ []LookupsTotal

\* A run has returned with references replaced by payloads, and the map is
\* the one buildPartMap returned.
C13_Witness ==
  /\ pass = 2
  /\ first # Input
  /\ \E i \in 1..Len(first) : first[i].r.k = "data"
  /\ byKey = buildPartMap(parts, docBase)

\* A reference written in one of the two placeholder forms.
IsPlaceholder(r) == r.k \in {"weird", "cidbang"}

\* The style element that holds the CSS rewriter's output for part hit.
InlinedSheet(hit) ==
  Elem("style", "", None,
       RewriteCss(TextOf(parts, hit), BaseOfHit(parts, hit, docBase),
                  byKey, parts).val)

\* C14: when a run has returned, each stylesheet link that hit a part is the
\* style element holding the CSS rewriter's output for that part; each that
\* missed is removed if its href was a placeholder and is as it was if not.
C14_SheetLinkInlinedOrKept ==
  pass = 2 =>
    \A i \in 1..Len(Input) :
      LET e == Input[i]
          hit == HitSheet(byKey, docBase, e.r)
      IN IsSheetLink(e) =>
           /\ hit # 0 => first[i] = InlinedSheet(hit)
           /\ (hit = 0 /\ IsPlaceholder(e.r)) => first[i] = Gone
           /\ (hit = 0 /\ ~IsPlaceholder(e.r)) => first[i] = e

\* The part a reference of the document denotes, 0 when there is none: the
\* first part at the URL the reference resolves to from the document base,
\* or the first part with the content id it names.
Denoted(r) ==
  LET url == IF r.k = "abs" THEN r
             ELSE IF r.k = "weird" THEN Abs(r.d, r.n)
             ELSE IF r.k = "rel" /\ docBase.k = "abs" THEN Abs(docBase.d, r.n)
             ELSE None
      id == IF r.k \in {"cid", "cidbang"} THEN Rel(r.n) ELSE None
      S == {j \in 1..Len(parts) :
              \/ Truthy(url) /\ parts[j].contentLocation = url
              \/ Truthy(id) /\ parts[j].contentId = id}
  IN IF S = {} THEN 0 ELSE CHOOSE j \in S : \A k \in S : j <= k

\* The data: URI of the declared type and the bytes of part j.
PayloadOf(j) == Data(parts[j].contentType, parts[j].buf)

ScriptTextOf(j) == TextOf(parts, j)

C17_HintsRemoved ==
  pass = 2 =>
    /\ \A i \in 1..Len(first) : ~IsHintLink(first[i])
    /\ \A i \in 1..Len(Input) : IsHintLink(Input[i]) => first[i] = Gone

\* A run has returned on a preload link whose href is a part.
C17_Witness ==
  /\ pass = 2
  /\ \E i \in 1..Len(Input) :
       /\ IsHintLink(Input[i])
       /\ HitAsset(byKey, docBase, Input[i].r) # 0
       /\ first[i] = Gone

\* C19: when a run has returned, each a[href] of the form cid:<id> or
\* cid!<id>@mhtml.blink whose id is a part's content id has that part's
\* payload as href, and each whose id no part has is unchanged.
C19_AnchorInlined ==
  pass = 2 =>
    \A i \in 1..Len(Input) :
      LET e == Input[i]
          j == Denoted(e.r)
      IN (e.t = "a" /\ e.r.k \in {"cid", "cidbang"}) =>
           /\ j # 0 => first[i] = [e EXCEPT !.r = PayloadOf(j)]
           /\ j = 0 => first[i] = e

\* The style sheet an element of the document brings: the text of a style
\* block or a style attribute, or the text of the part a stylesheet link hit.
SheetTextOf(e) ==
  IF IsSheetLink(e) THEN TextOf(parts, HitSheet(byKey, docBase, e.r)) ELSE e.c

\* The base of that style sheet: the location of the part, or the document
\* base.
SheetBaseOf(e) ==
  IF IsSheetLink(e) THEN BaseOfHit(parts, HitSheet(byKey, docBase, e.r), docBase)
  ELSE docBase

\* e brings a style sheet that holds no @import rule.
BringsPlainSheet(e) ==
  /\ \/ IsSheetLink(e) /\ HitSheet(byKey, docBase, e.r) # 0
     \/ e.t \in {"style", "div"}
  /\ ImportCount(SheetTextOf(e)) = 0

\* C20: when a run has returned, each url() token of a style sheet without
\* @import whose argument is not data: holds the payload of the part it hit
\* from the base of its style sheet, and is as written when it hit no part.
C20_UrlTokenInlinedOrKept ==
  pass = 2 =>
    \A i \in 1..Len(Input) :
      BringsPlainSheet(Input[i]) =>
        LET css == SheetTextOf(Input[i])
            out == first[i].c
        IN /\ Len(out) = Len(css)
           /\ \A k \in 1..Len(css) :
                (css[k].t = "url" /\ css[k].r.k # "data") =>
                  LET hit == HitCssUrl(byKey, SheetBaseOf(Input[i]), css[k].r)
                  IN /\ hit # 0 => out[k] = [css[k] EXCEPT !.r = PayloadOf(hit)]
                     /\ hit = 0 => out[k] = css[k]

\* Every reference of the document d is a data: URI (or the "." the rewriter
\* writes into base).
OnlyEmbedded(d) ==
  \A i \in 1..Len(d) :
    /\ d[i].r.k \in {"none", "data"} \/ (d[i].t = "base" /\ d[i].r = Dot)
    /\ \A j \in 1..Len(d[i].c) : d[i].c[j].r.k \in {"none", "data"}

\* C7 (as stated): when the rewriter has run on its own output, and that
\* output held only data: references, the second run changed nothing.
C7_SecondPassNoOp ==
  (pc = "h-done" /\ OnlyEmbedded(first)) => doc = first

\* ------------------------------------------- HTML: documents with bases
\* Elements of these documents: a base whose href is an absolute URL, one
\* whose href is relative, one with a target and no href, and an image.
BaseElements ==
  {Elem("base", "", Abs("", <<"c">>), NoSeq), Elem("base", "", Rel(NmA), NoSeq),
   Elem("base", "", None, NoSeq), Elem("img", "", Rel(NmB), NoSeq)}

InitBase ==
  /\ NoLayout
  /\ files = << >>
  /\ fi = 0
  /\ dist = {}
  /\ container = NoSeq
  /\ err = ""
  /\ written = FALSE
  /\ \E d \in SeqsUpTo(BaseElements, MaxBases) :
       parts = HtmlPartList(d, <<Rule("r")>>)
  /\ rootIdx = SelectRoot(parts)
  /\ docBase = DocBaseOf(parts)
  /\ byKey = buildPartMap(parts, docBase)
  /\ bi = Len(parts) + 1
  /\ pc = "h-base"
  /\ cssText = NoSeq
  /\ cssBase = None
  /\ doc = TextOf(parts, rootIdx)
  /\ first = NoSeq
  /\ pass = 1

\* The steps of rewriteHtmlWithMap on a document that holds no style sheet.
NextBase ==
  \/ HtmlBase \/ HtmlSheets \/ HtmlStyles \/ HtmlStyleAttrs \/ HtmlImages
  \/ HtmlScripts \/ HtmlIcons \/ HtmlAnchors \/ HtmlHintsReturn
  \/ HtmlHintsReturnAgain

SpecBase == InitBase /\ [][NextBase]_vars

\* The positions of the base elements of d that carry an href.
BasesWithHref(d) == {i \in 1..Len(d) : d[i].t = "base" /\ Truthy(d[i].r)}

\* C18 (as stated): when a run has returned, every base element of the output
\* that carries an href has the href ".".
C18_EveryBaseNeutral ==
  pass = 2 => \A i \in BasesWithHref(first) : first[i].r = Dot

\* C18 (amended): when a run has returned, the first base element that
\* carries an href has the href ".", and each later base element is as it
\* was in the input.
C18_FirstBaseNeutral ==
  pass = 2 =>
    \A i \in BasesWithHref(Input) :
      IF \A j \in BasesWithHref(Input) : i <= j
      THEN first[i] = [Input[i] EXCEPT !.r = Dot]
      ELSE first[i] = Input[i]

\* A run has returned on a document of two base[href]: the first has ".",
\* the second its href.
C18_Witness ==
  /\ pass = 2
  /\ Input = <<Elem("base", "", Abs("", <<"c">>), NoSeq),
               Elem("base", "", Rel(NmA), NoSeq)>>
  /\ first = <<Elem("base", "", Dot, NoSeq), Elem("base", "", Rel(NmA), NoSeq)>>

\* ------------------------------------------------------ the container file
\* The file is a sequence of CRLF-terminated lines.  A line is a header
\* (h is its lower-case name; mt and b are the media type and the presence of
\* a boundary parameter of a Content-Type value, ref the value of
\* Content-Location and Content-ID), the empty line (h = ""), the delimiter
\* "--B", the "--" that follows the last delimiter, or a line of a body
\* (tok is the token it holds).
Line(h, mt, b, ref, tok) == [h |-> h, mt |-> mt, b |-> b, ref |-> ref, tok |-> tok]

CtLine(mt, b) == Line("content-type", mt, b, None, Byte(""))

LocLine(u) == Line("content-location", "", FALSE, u, Byte(""))

IdLine(u) == Line("content-id", "", FALSE, u, Byte(""))

EncLine(enc) == Line("content-transfer-encoding", enc, FALSE, None, Byte(""))

MimeLine == Line("mime-version", "", FALSE, None, Byte(""))

BlankLine == Line("", "", FALSE, None, Byte(""))

DelimLine == Line("--B", "", FALSE, None, Byte(""))

DashLine == Line("--", "", FALSE, None, Byte(""))

BodyLine(tok) == Line("body", "", FALSE, None, tok)

\* text.indexOf("\r\n\r\n"): the position of the first empty line, 0 for -1.
IndexOfBlank(ls) ==
  LET S == {i \in 1..Len(ls) : ls[i].h = ""}
  IN IF S = {} THEN 0 ELSE CHOOSE i \in S : \A j \in S : i <= j

\* out[name] of parseHeaders(block): the value of the last line with that
\* name; the empty line stands for undefined.
HeaderOf(block, name) ==
  LET S == {i \in 1..Len(block) : block[i].h = name}
  IN IF S = {} THEN BlankLine ELSE block[CHOOSE i \in S : \A j \in S : j <= i]

parseHeaders(block) ==
  [name \in {"content-type", "content-location", "content-id",
             "content-transfer-encoding"} |->
     HeaderOf(block, name)]

\* text.split(delim): the lines before the first delimiter, then the lines
\* behind each delimiter.
RECURSIVE SplitAtDelim(_)
SplitAtDelim(ls) ==
  IF ls = << >> THEN << << >> >>
  ELSE LET rest == SplitAtDelim(Tail(ls))
       IN IF Head(ls).h = "--B" THEN << << >> >> \o rest
          ELSE << <<Head(ls)>> \o Head(rest) >> \o Tail(rest)

\* A character of an encoded body.
Char(f) == Tok("char", f, None, NoSeq)

\* /\s/ on a character.
IsSpace(tok) == tok.f \in {" ", "\n"}

NotSpace(tok) == ~IsSpace(tok)

\* The line is white space only: the empty line, or a body line of a white
\* space character.
IsBlank(l) == l.h = "" \/ (l.h = "body" /\ IsSpace(l.tok))

\* The text of the line is "--": the line behind the last delimiter, or a
\* body line that reads "--".
IsDashes(l) == l.h = "--" \/ (l.h = "body" /\ l.tok = Char("--"))

\* if (/--\s*$/.test(raw)) raw = raw.replace(/--\s*$/, ""): a "--" with
\* nothing but white space behind it is cut off with that white space.
StripEnd(raw) ==
  LET S == {i \in 1..Len(raw) : ~IsBlank(raw[i])}
      k == CHOOSE i \in S : \A j \in S : j <= i
  IN IF S # {} /\ IsDashes(raw[k]) THEN SubSeq(raw, 1, k - 1) ELSE raw

\* The value of a character in the base64 alphabet, -1 outside it.
unbase64(f) ==
  CASE f = "A" -> 0
    [] f = "Q" -> 16
    [] f = "/" -> 63
    [] OTHER -> -1

\* The values Buffer.from(clean, "base64") collects: it skips a character
\* outside the alphabet and stops at "="; it takes "-" of the URL alphabet
\* for "+" (62).
RECURSIVE Sextets(_)
Sextets(toks) ==
  IF toks = << >> THEN << >>
  ELSE IF Head(toks).f = "=" THEN << >>
  ELSE IF Head(toks).f = "--" THEN <<62, 62>> \o Sextets(Tail(toks))
  ELSE IF unbase64(Head(toks).f) < 0 THEN Sextets(Tail(toks))
  ELSE <<unbase64(Head(toks).f)>> \o Sextets(Tail(toks))

\* The bytes of the groups of four values; two values left over give one
\* byte, three give two.
RECURSIVE BytesOfSextets(_)
BytesOfSextets(q) ==
  LET b1 == Byte(ToString(q[1] * 4 + q[2] \div 16))
      b2 == Byte(ToString((q[2] % 16) * 16 + q[3] \div 4))
      b3 == Byte(ToString((q[3] % 4) * 64 + q[4]))
  IN IF Len(q) < 2 THEN << >>
     ELSE IF Len(q) = 2 THEN <<b1>>
     ELSE IF Len(q) = 3 THEN <<b1, b2>>
     ELSE <<b1, b2, b3>> \o BytesOfSextets(SubSeq(q, 5, Len(q)))

\* Buffer.from(bodyBin.replace(/\s+/g, ""), "base64")
DecodeBase64(bodyBin) == BytesOfSextets(Sextets(SelectSeq(bodyBin, NotSpace)))

\* decodeQP(str): "=\n" is a soft line break, "=41" the byte 0x41.
DecodeQPChar(tok) ==
  IF tok.f = "=\n" THEN << >>
  ELSE IF tok.f = "=41" THEN <<Char("A")>>
  ELSE <<tok>>

RECURSIVE decodeQP(_)
decodeQP(str) ==
  IF str = << >> THEN << >>
  ELSE DecodeQPChar(Head(str)) \o decodeQP(Tail(str))

\* buf of a part, from the value of Content-Transfer-Encoding and bodyBin.
DecodeBody(enc, bodyBin) ==
  IF enc = "base64" THEN DecodeBase64(bodyBin)
  ELSE IF enc = "quoted-printable" THEN decodeQP(bodyBin)
  ELSE bodyBin

\* A turn of the loop that pushes a chunk without an empty line as a part
\* without headers.
PartOfRawKeepsAll(raw0) ==
  LET raw == StripEnd(raw0)
      idx == IndexOfBlank(raw)
      ph == parseHeaders(SubSeq(raw, 1, idx - 1))
      ct == IF ph["content-type"].h = "" THEN "application/octet-stream"
            ELSE ph["content-type"].mt
      loc == ph["content-location"].ref
      cid == ph["content-id"].ref
      enc == ph["content-transfer-encoding"].mt
      body == SubSeq(raw, idx + 1, Len(raw))
  IN IF \A i \in 1..Len(raw) : raw[i].h = "" THEN << >>
     ELSE IF idx = 0
       THEN << Part("application/octet-stream", None, None,
                    [i \in 1..Len(raw) |-> raw[i].tok]) >>
     ELSE << Part(ct,
                  IF Truthy(loc) THEN normKey(loc) ELSE None,
                  IF Truthy(cid) THEN normKey(cid) ELSE None,
                  DecodeBody(enc, [i \in 1..Len(body) |-> body[i].tok])) >>

\* One turn of the loop over partsRaw: the parts it pushes (none or one).
PartOfRaw(raw0) ==
  LET raw == StripEnd(raw0)
      idx == IndexOfBlank(raw)
      ph == parseHeaders(SubSeq(raw, 1, idx - 1))
      ct == IF ph["content-type"].h = "" THEN "application/octet-stream"
            ELSE ph["content-type"].mt
      loc == ph["content-location"].ref
      cid == ph["content-id"].ref
      enc == ph["content-transfer-encoding"].mt
      body == SubSeq(raw, idx + 1, Len(raw))
  IN IF \A i \in 1..Len(raw) : raw[i].h = "" THEN << >>
     ELSE IF idx = 0 THEN << >>
     ELSE << Part(ct,
                  IF Truthy(loc) THEN normKey(loc) ELSE None,
                  IF Truthy(cid) THEN normKey(cid) ELSE None,
                  DecodeBody(enc, [i \in 1..Len(body) |-> body[i].tok])) >>

RECURSIVE PartsOfRaws(_)
PartsOfRaws(raws) ==
  IF raws = << >> THEN << >>
  ELSE PartOfRaw(Head(raws)) \o PartsOfRaws(Tail(raws))

Thrown(e) == [ok |-> FALSE, err |-> e, val |-> << >>]

\* parseMHTML(buffer)
parseMHTML(buffer) ==
  LET headerEnd == IndexOfBlank(buffer)
      headers == parseHeaders(SubSeq(buffer, 1, headerEnd - 1))
      bmatch == headers["content-type"].b
      partsRaw == Tail(SplitAtDelim(buffer))
  IN IF headerEnd = 0 THEN Thrown(NoHeaderSection)
     ELSE IF ~bmatch THEN Thrown(NoBoundary)
     ELSE [ok |-> TRUE, err |-> "", val |-> PartsOfRaws(partsRaw)]

\* ------------------------------------------------- main loop: the inputs
\* A chunk of a file: its Content-Type (ct, "" when it has none), its
\* Content-Location, whether an empty line follows its headers, its body.
Chunk(ct, loc, sep, body) == [ct |-> ct, loc |-> loc, sep |-> sep, body |-> body]

ImgA == Elem("img", "", Rel(NmA), NoSeq)

StyleA == Elem("style", "", None, <<Import("semi_url", Rel(NmA))>>)

SheetA == Elem("link", "stylesheet", Rel(NmA), NoSeq)

Chunks ==
  { Chunk("text/html", Abs("", <<"i">>), TRUE, <<StyleA>>),
    Chunk("text/html", Abs("", <<"i">>), TRUE, <<SheetA, ImgA>>),
    Chunk("text/html-sandboxed", None, TRUE, <<ImgA>>),
    Chunk("text/html-sandboxed", None, TRUE, <<ImgA, ImgA>>),
    Chunk("text/css", Abs("", NmA), TRUE, <<Import("semi_url", Rel(NmA))>>),
    Chunk("text/css", Abs("", NmA), TRUE, <<Rule("r"), Url(Abs("", <<"c">>))>>),
    Chunk("", Abs("", NmB), TRUE, <<Byte("g")>>),
    Chunk("", Abs("", NmB), TRUE, <<Byte("g"), Byte("g")>>),
    Chunk("text/html", Abs("", <<"i">>), FALSE, <<ImgA>>) }

RenderChunk(c) ==
  <<DelimLine>>
  \o (IF c.ct = "" THEN << >> ELSE <<CtLine(c.ct, FALSE)>>)
  \o (IF Truthy(c.loc) THEN <<LocLine(c.loc)>> ELSE << >>)
  \o (IF c.sep THEN <<BlankLine>> ELSE << >>)
  \o [i \in 1..Len(c.body) |-> BodyLine(c.body[i])]

RECURSIVE RenderChunks(_)
RenderChunks(cs) ==
  IF cs = << >> THEN << >> ELSE RenderChunk(Head(cs)) \o RenderChunks(Tail(cs))

\* A file: the outer headers (octype says whether Content-Type is among them
\* and has a boundary parameter), an empty line or none, the chunks, the
\* closing delimiter.
RenderFile(octype, blank, cs) ==
  <<MimeLine>>
  \o (IF octype = "none" THEN << >>
      ELSE <<CtLine("multipart/related", octype = "boundary")>>)
  \o (IF blank THEN <<BlankLine>> ELSE << >>)
  \o RenderChunks(cs)
  \o <<DelimLine, DashLine>>

Files ==
  { RenderFile(octype, blank, cs) :
      octype \in {"none", "noparam", "boundary"}, blank \in BOOLEAN,
      cs \in SeqsUpTo(Chunks, MaxChunks) }

\* ------------------------------------------------------------ the main loop
\* One turn of the loop over the files, from fs.readFile to fs.writeFile.
Init ==
  /\ NoLayout
  /\ container \in Files
  /\ files = <<container>>
  /\ fi = 1
  /\ dist = {}
  /\ err = ""
  /\ written = FALSE
  /\ parts = << >>
  /\ rootIdx = 0
  /\ docBase = None
  /\ byKey = EmptyMap
  /\ bi = 1
  /\ pc = "parse"
  /\ cssText = NoSeq
  /\ cssBase = None
  /\ doc = NoSeq
  /\ first = NoSeq
  /\ pass = 0

\* const parts = parseMHTML(buf)
ParseReturn ==
  /\ pc = "parse"
  /\ parseMHTML(container).ok
  /\ parts' = parseMHTML(container).val
  /\ pc' = "select"
  /\ UNCHANGED <<layoutVars, batchVars, fileVars, rootIdx, docBase, byKey, bi,
                 cssVars,
                 htmlVars>>

ParseThrow ==
  /\ pc = "parse"
  /\ ~parseMHTML(container).ok
  /\ err' = parseMHTML(container).err
  /\ pc' = "failed"
  /\ UNCHANGED <<layoutVars, batchVars, container, written, indexVars,
                 cssVars, htmlVars>>

\* if (htmlParts.length === 0) throw new Error(`No text/html part found in ...`)
NoRoot ==
  /\ pc = "select"
  /\ Len(htmlParts(parts)) = 0
  /\ err' = NoHtmlPart
  /\ pc' = "failed"
  /\ UNCHANGED <<layoutVars, batchVars, container, written, indexVars,
                 cssVars, htmlVars>>

\* htmlParts.sort(...); rootPart = htmlParts[0]; docBase = ...
ChooseRoot ==
  /\ pc = "select"
  /\ Len(htmlParts(parts)) # 0
  /\ rootIdx' = SelectRoot(parts)
  /\ docBase' = DocBaseOf(parts)
  /\ pc' = "build"
  /\ UNCHANGED <<layoutVars, batchVars, fileVars, parts, byKey, bi, cssVars,
                 htmlVars>>

\* const html0 = rootPart.text || rootPart.buf.toString("utf-8"), and the
\* call rewriteHtmlWithMap(html0, docBase, partMap); pass stays 0 in the run
\* the main loop makes.
RewriteCall ==
  /\ pc = "rewrite"
  /\ rootIdx # 0
  /\ doc' = TextOf(parts, rootIdx)
  /\ pc' = "h-base"
  /\ UNCHANGED <<layoutVars, batchVars, fileVars, indexVars, cssVars, first,
                 pass>>

\* The hints are removed and finalHtml = $.html() is returned.
HtmlHintsFinish ==
  /\ pc = "h-hints"
  /\ pass = 0
  /\ doc' = HintLoop(doc)
  /\ pc' = "write"
  /\ UNCHANGED <<layoutVars, batchVars, fileVars, indexVars, cssVars, first,
                 pass>>

\* await fs.writeFile(path.join(dir, "index.html"), finalHtml, "utf8")
WriteFile ==
  /\ pc = "write"
  /\ written' = TRUE
  /\ dist' = dist \cup {<<fi, doc>>}
  /\ pc' = "done"
  /\ UNCHANGED <<layoutVars, files, fi, container, err, indexVars, cssVars,
                 htmlVars>>

Next ==
  \/ ParseReturn \/ ParseThrow \/ NoRoot \/ ChooseRoot \/ BuildStep \/ BuildDone
  \/ RewriteCall \/ HtmlBase \/ HtmlSheets \/ HtmlSheetsThrow \/ HtmlStyles
  \/ HtmlStylesThrow \/ HtmlStyleAttrs \/ HtmlImages \/ HtmlScripts \/ HtmlIcons
  \/ HtmlAnchors \/ HtmlHintsFinish \/ WriteFile

Spec == Init /\ [][Next]_vars

\* ------------------------------------------------------- main loop: claims
\* The root has been chosen.
RootChosen == rootIdx # 0

\* Part i is at least as long as every part of the set S, and is the first
\* of S among those of its length.
LongestFirstOf(i, S) ==
  /\ i \in S
  /\ \A j \in S :
       /\ Len(parts[j].buf) <= Len(parts[i].buf)
       /\ Len(parts[j].buf) = Len(parts[i].buf) => i <= j

OuterBlock(c) ==
  LET D == {i \in 1..Len(c) : c[i].h = "--B"}
  IN IF D = {} THEN c
     ELSE SubSeq(c, 1, (CHOOSE i \in D : \A j \in D : i <= j) - 1)

\* The file has no outer header block that an empty line ends, or the
\* Content-Type of that block has no boundary parameter.
Malformed(c) ==
  \/ IndexOfBlank(OuterBlock(c)) = 0
  \/ ~HeaderOf(OuterBlock(c), "content-type").b

\* C9 (as stated): once parseMHTML has run, it has thrown one of its two
\* errors exactly when the file is malformed, and no output is written for a
\* malformed file.
C9_MalformedExactlyFails ==
  pc # "parse" =>
    /\ (err \in {NoHeaderSection, NoBoundary}) <=> Malformed(container)
    /\ Malformed(container) => ~written

\* The parse has returned without a part of content type text/html.
ParsedWithout(types) ==
  /\ pc \notin {"parse", "select"}
  /\ err \notin {NoHeaderSection, NoBoundary}
  /\ \A i \in 1..Len(parts) : parts[i].contentType \notin types

\* The conversion has stopped on NoHtmlPart with no index built, no rewriting
\* run and no file written.
FailedBeforeIndex ==
  /\ pc = "failed"
  /\ err = NoHtmlPart
  /\ byKey = EmptyMap
  /\ bi = 1
  /\ doc = NoSeq
  /\ ~written

RECURSIVE PartsOfChunks(_)
PartsOfChunks(cs) ==
  IF cs = << >> THEN << >>
  ELSE LET c == Head(cs)
       IN (IF c.sep
           THEN << Part(IF c.ct = "" THEN "application/octet-stream" ELSE c.ct,
                        c.loc, None, c.body) >>
           ELSE << >>)
          \o PartsOfChunks(Tail(cs))

\* C26: when parseMHTML has returned on the file of the chunks cs, its result
\* is the parts of the chunks of cs that have a header/body separator, in
\* the order of the file: nothing of the outer headers or of the closing
\* "--", nothing of a chunk without separator.
C26_PartsInFileOrder ==
  \A cs \in SeqsUpTo(Chunks, MaxChunks) :
    (pc = "select" /\ \E t \in {"none", "noparam", "boundary"}, b \in BOOLEAN :
                        container = RenderFile(t, b, cs))
    => parts = PartsOfChunks(cs)

\* parseMHTML has returned on a file with a chunk without separator and,
\* behind it, the chunk of a style sheet: the style sheet is the only part.
C26_Witness ==
  /\ pc = "select"
  /\ container =
       RenderFile("boundary", TRUE,
         <<Chunk("text/html", Abs("", <<"i">>), FALSE, <<ImgA>>),
           Chunk("text/css", Abs("", NmA), TRUE,
                 <<Rule("r"), Url(Abs("", <<"c">>))>>)>>)
  /\ Len(parts) = 1
  /\ parts[1].contentType = "text/css"

\* ------------------------------------------------- the loop over the files
\* An image part https://host/b with Content-ID <a@b>.
ChunkB == Chunk("", Abs("", NmB), TRUE, <<Byte("g")>>)

\* Files that convert: a page with an image, a page with a sheet link.
PageOne ==
  RenderFile("boundary", TRUE,
    <<Chunk("text/html", Abs("", <<"i">>), TRUE,
            <<Elem("img", "", Rel(NmB), NoSeq)>>), ChunkB>>)

PageTwo ==
  RenderFile("boundary", TRUE,
    <<Chunk("text/html", Abs("", <<"i">>), TRUE, <<SheetA, ImgA>>),
      Chunk("text/css", Abs("", NmA), TRUE, <<Rule("r"), Url(Rel(NmB))>>)>>)

\* A file without a boundary parameter and a file without an HTML part.
NoBoundaryFile == RenderFile("noparam", TRUE, <<ChunkB>>)

NoHtmlFile == RenderFile("boundary", TRUE, <<ChunkB>>)

BatchFiles == {PageOne, PageTwo, NoBoundaryFile, NoHtmlFile}

\* const files = await glob("*.{mhtml,mht}"), after fs.emptyDir(OUT).
InitBatch ==
  /\ NoLayout
  /\ files \in SeqsUpTo(BatchFiles, MaxFiles)
  /\ fi = 1
  /\ dist = {}
  /\ container = NoSeq
  /\ err = ""
  /\ written = FALSE
  /\ parts = << >>
  /\ rootIdx = 0
  /\ docBase = None
  /\ byKey = EmptyMap
  /\ bi = 1
  /\ pc = "loop"
  /\ cssText = NoSeq
  /\ cssBase = None
  /\ doc = NoSeq
  /\ first = NoSeq
  /\ pass = 0

\* if (files.length === 0) { write the landing page; process.exit(0) }
NoFiles ==
  /\ pc = "loop"
  /\ Len(files) = 0
  /\ dist' = dist \cup {<<0, << >> >>}
  /\ pc' = "exit"
  /\ UNCHANGED <<layoutVars, files, fi, fileVars, indexVars, cssVars, htmlVars>>

\* A loop whose index of the parts lives across the turns.
ReadFileKeepsIndex ==
  /\ pc = "loop"
  /\ fi <= Len(files)
  /\ container' = files[fi]
  /\ written' = FALSE
  /\ parts' = << >>
  /\ rootIdx' = 0
  /\ docBase' = None
  /\ bi' = 1
  /\ doc' = NoSeq
  /\ pc' = "parse"
  /\ UNCHANGED <<layoutVars, batchVars, err, byKey, cssVars, first, pass>>

\* for (const file of files): const buf = await fs.readFile(file); the
\* constants of the loop body are fresh in each turn.
ReadFile ==
  /\ pc = "loop"
  /\ fi <= Len(files)
  /\ container' = files[fi]
  /\ written' = FALSE
  /\ parts' = << >>
  /\ rootIdx' = 0
  /\ docBase' = None
  /\ byKey' = EmptyMap
  /\ bi' = 1
  /\ doc' = NoSeq
  /\ pc' = "parse"
  /\ UNCHANGED <<layoutVars, batchVars, err, cssVars, first, pass>>

\* links.push(...); the loop goes to the next file.
NextFile ==
  /\ pc = "done"
  /\ fi' = fi + 1
  /\ pc' = "loop"
  /\ UNCHANGED <<layoutVars, files, dist, fileVars, indexVars, cssVars,
                 htmlVars>>

\* After the loop: the landing page is written.
LandingPage ==
  /\ pc = "loop"
  /\ Len(files) # 0
  /\ fi > Len(files)
  /\ dist' = dist \cup {<<0, << >> >>}
  /\ pc' = "exit"
  /\ UNCHANGED <<layoutVars, files, fi, fileVars, indexVars, cssVars, htmlVars>>

\* An error thrown in the loop body is caught nowhere: the module's top-level
\* await rejects and the process ends, so "failed" has no successor.
NextBatch ==
  \/ NoFiles \/ ReadFile \/ NextFile \/ LandingPage
  \/ ParseReturn \/ ParseThrow \/ NoRoot \/ ChooseRoot \/ BuildStep \/ BuildDone
  \/ RewriteCall \/ HtmlBase \/ HtmlSheets \/ HtmlStyles \/ HtmlStyleAttrs
  \/ HtmlImages \/ HtmlScripts \/ HtmlIcons \/ HtmlAnchors \/ HtmlHintsFinish
  \/ WriteFile

SpecBatch == InitBatch /\ [][NextBatch]_vars

\* ------------------------------------------------ loop over files: claims
\* The program has ended.
Ended == pc \in {"exit", "failed"}

\* index.html has been written for file i.
WrittenFor(i) == \E o \in dist : o[1] = i

\* C11: when the program has ended after a file failed with a malformed
\* container or a missing HTML part, index.html has been written for every
\* other file of the batch that converts, those behind the failing one
\* included.
C11_FailureSparesOtherFiles ==
  (Ended /\ err \in {NoHeaderSection, NoBoundary, NoHtmlPart}) =>
    \A i \in 1..Len(files) :
      files[i] \in {PageOne, PageTwo} => WrittenFor(i)

\* The document the loop body computes from the bytes of one file that
\* converts: parse, root, index, rewrite.
ConvertAlone(buf) ==
  LET ps == parseMHTML(buf).val
      base == DocBaseOf(ps)
  IN rewriteHtmlWithMap(TextOf(ps, SelectRoot(ps)), base,
                        buildPartMap(ps, base), ps).val

\* C22: each document written for a file of the batch is the document
\* computed from the bytes of that file alone, whatever files the loop
\* converted before it.
C22_DocumentOfItsBytesOnly ==
  \A o \in dist : o[1] >= 1 => o[2] = ConvertAlone(files[o[1]])

\* The program has ended after it converted the page with the image and then
\* the page with the sheet link, whose url(b) names no part of its file.
C22_Witness ==
  /\ pc = "exit"
  /\ files = <<PageOne, PageTwo>>
  /\ WrittenFor(1)
  /\ <<2, ConvertAlone(PageTwo)>> \in dist

\* ------------------------------------------------------ decoding of a part
\* The characters of the encoded bodies: three of the base64 alphabet, one
\* outside it, white space, padding, the two escapes of quoted-printable,
\* and the two hyphens "--".
BodyChars ==
  {Char("A"), Char("Q"), Char("/"), Char("!"), Char(" "), Char("\n"),
   Char("="), Char("=\n"), Char("=41"), Char("--")}

\* A chunk with a Content-Transfer-Encoding header ("": without one).
RenderEncodedChunk(enc, c) ==
  <<DelimLine>> \o (IF enc = "" THEN << >> ELSE <<EncLine(enc)>>)
  \o Tail(RenderChunk(c))

\* A file with one image part whose body is encoded.
EncodedFile(enc, body) ==
  <<MimeLine, CtLine("multipart/related", TRUE), BlankLine>>
  \o RenderEncodedChunk(enc, Chunk("image/png", Abs("", NmB), TRUE, body))
  \o <<DelimLine, DashLine>>

InitDecode ==
  /\ NoLayout
  /\ \E enc \in {"base64", "quoted-printable", "7bit", "8bit", ""},
        body \in SeqsUpTo(BodyChars, MaxBody) :
       container = EncodedFile(enc, body)
  /\ files = <<container>>
  /\ fi = 1
  /\ dist = {}
  /\ err = ""
  /\ written = FALSE
  /\ parts = << >>
  /\ rootIdx = 0
  /\ docBase = None
  /\ byKey = EmptyMap
  /\ bi = 1
  /\ pc = "parse"
  /\ cssText = NoSeq
  /\ cssBase = None
  /\ doc = NoSeq
  /\ first = NoSeq
  /\ pass = 0

\* The files of these runs are well formed: parseMHTML returns.
NextDecode == ParseReturn

SpecDecode == InitDecode /\ [][NextDecode]_vars

\* The body lines of the file, as characters.
BodyOf(c) ==
  LET B == SelectSeq(c, LAMBDA l : l.h = "body")
  IN [i \in 1..Len(B) |-> B[i].tok]

\* The file declares base64 for its part.
DeclaresBase64(c) ==
  \E i \in 1..Len(c) : c[i].h = "content-transfer-encoding" /\ c[i].mt = "base64"

\* A character that is neither white space, nor of the alphabet, nor padding.
IsInvalidBase64(tok) == NotSpace(tok) /\ tok.f # "=" /\ unbase64(tok.f) < 0

\* C12: once a file whose base64 body holds a character outside the alphabet
\* has been parsed, the outcome is an error and no part holds a payload
\* decoded from that body.
C12_InvalidBase64IsAnError ==
  (pc # "parse" /\ DeclaresBase64(container)
     /\ \E i \in 1..Len(BodyOf(container)) :
          IsInvalidBase64(BodyOf(container)[i]))
  => (err # "" /\ parts = << >>)

\* The file declares 7bit or 8bit for its part, or no transfer encoding.
DeclaresIdentity(c) ==
  \A i \in 1..Len(c) :
    c[i].h = "content-transfer-encoding" => c[i].mt \in {"7bit", "8bit"}

\* C25: once a file whose part declares 7bit, 8bit or no transfer encoding
\* has been parsed, the bytes of the part are the body of the part in the
\* file, unchanged.
C25_IdentityBodyUnchanged ==
  (pc # "parse" /\ DeclaresIdentity(container)) =>
    (Len(parts) = 1 /\ parts[1].buf = BodyOf(container))

\* ------------------------------------------------------- the layout test
\* The build of src/unnamed/part_000: each file is rendered offline in a
\* page, the DOM is saved as one HTML file, that file is rendered in a second
\* page, and the two screenshots are compared.

\* The schemes of the URLs a page asks for while it renders.
UrlSchemes == {"http", "https", "file"}

\* A handler that lets https through.
VerdictHttpOnly(u) == IF u = "http" THEN "aborted" ELSE "continued"

\* page.on("request"): req.abort("blockedbyclient") for http(s), else
\* req.continue().
Verdict(u) == IF u \in {"http", "https"} THEN "aborted" ELSE "continued"

\* The pixels of a screenshot of the viewport, 1440 x 900.
TotalPixels == 1440 * 900

\* diffPixels of diffPNGs: none, the most DIFF_THRESHOLD allows, one more,
\* and all of them (which is also what two sizes that differ give).
DiffCounts == {0, 12960, 12961, TotalPixels}

\* !(diffRatio <= DIFF_THRESHOLD), with DIFF_THRESHOLD = 0.01
Exceeds(d) == d[1] * 100 > d[2]

\* The errors that end the build: what a call of withOfflinePage threw, and
\* the Error of the report step.
RenderFailed == "render failed"

LayoutChanged == "layout changed too much offline"

\* The variables of the converter, and their values in the layout test.
convertVars == <<container, written, indexVars, cssVars, htmlVars>>

NoConvert ==
  /\ container = NoSeq
  /\ written = FALSE
  /\ parts = << >>
  /\ rootIdx = 0
  /\ docBase = None
  /\ byKey = EmptyMap
  /\ bi = 1
  /\ cssText = NoSeq
  /\ cssBase = None
  /\ doc = NoSeq
  /\ first = NoSeq
  /\ pass = 0

\* const files = await glob(FILE_GLOB), after fs.emptyDir(OUT) and before the
\* browser has a page.
InitLayout ==
  /\ NoLayout
  /\ NoConvert
  /\ files \in SeqsUpTo({"a.mhtml"}, MaxFiles)
  /\ fi = 1
  /\ dist = {}
  /\ err = ""
  /\ pc = "l-loop"

\* if (files.length === 0) { write the landing page; process.exit(0) }
LayoutNoFiles ==
  /\ pc = "l-loop"
  /\ Len(files) = 0
  /\ dist' = dist \cup {<<0, "index.html">>}
  /\ pc' = "l-exit"
  /\ UNCHANGED <<layoutVars, files, fi, err, convertVars>>

\* for (const mhtmlRel of files): the first call of withOfflinePage.
LayoutBeginFile ==
  /\ pc = "l-loop"
  /\ fi <= Len(files)
  /\ call' = 1
  /\ pc' = "l-newpage"
  /\ UNCHANGED <<pages, reqs, pending, delivered, diff, batchVars, err,
                 convertVars>>

\* const page = await browser.newPage()
NewPage ==
  /\ pc = "l-newpage"
  /\ pages' = Append(pages, "setup")
  /\ reqs' = {}
  /\ pc' = "l-setup"
  /\ UNCHANGED <<call, pending, delivered, diff, batchVars, err, convertVars>>

\* setViewport, setOfflineMode, setRequestInterception and page.on return;
\* the try block is entered and fn(page) is called.
SetupDone ==
  /\ pc = "l-setup"
  /\ pages' = [pages EXCEPT ![Len(pages)] = "ready"]
  /\ pc' = "l-fn"
  /\ UNCHANGED <<reqs, call, pending, delivered, diff, batchVars, err,
                 convertVars>>

\* One of the awaited calls in front of the try block rejects: the function
\* is left with that error, the finally block is not reached.
SetupThrows ==
  /\ pc = "l-setup"
  /\ pending' = "error"
  /\ pc' = "l-deliver"
  /\ UNCHANGED <<pages, reqs, call, delivered, diff, batchVars, err,
                 convertVars>>

\* The page asks for a URL while fn renders it: the handler gives its
\* verdict.
Request ==
  /\ pc = "l-fn"
  /\ \E u \in UrlSchemes :
       /\ \A r \in reqs : r.url # u
       /\ reqs' = reqs \cup {[url |-> u, verdict |-> Verdict(u)]}
  /\ UNCHANGED <<pages, call, pending, delivered, diff, batchVars, err, pc,
                 convertVars>>

\* return await fn(page): fn returns.
FnReturns ==
  /\ pc = "l-fn"
  /\ pending' = "value"
  /\ pc' = "l-finally"
  /\ UNCHANGED <<pages, reqs, call, delivered, diff, batchVars, err,
                 convertVars>>

\* return await fn(page): page.goto, page.screenshot or page.evaluate
\* rejects in fn.
FnThrows ==
  /\ pc = "l-fn"
  /\ pending' = "error"
  /\ pc' = "l-finally"
  /\ UNCHANGED <<pages, reqs, call, delivered, diff, batchVars, err,
                 convertVars>>

\* finally { await page.close(); }
Finally ==
  /\ pc = "l-finally"
  /\ pages' = [pages EXCEPT ![Len(pages)] = "closed"]
  /\ pc' = "l-deliver"
  /\ UNCHANGED <<reqs, call, pending, delivered, diff, batchVars, err,
                 convertVars>>

\* What a call of withOfflinePage passes to its caller, and whether the page
\* of the call is closed by then.
Delivery == [page |-> Len(pages), kind |-> pending,
             closed |-> pages[Len(pages)] = "closed"]

\* withOfflinePage resolves: the first call goes on to save the single
\* file, the second to the comparison.
ReturnToCaller ==
  /\ pc = "l-deliver"
  /\ pending = "value"
  /\ delivered' = Append(delivered, Delivery)
  /\ pending' = "none"
  /\ pc' = IF call = 1 THEN "l-save" ELSE "l-diff"
  /\ UNCHANGED <<pages, reqs, call, diff, batchVars, err, convertVars>>

\* withOfflinePage rejects: the catch of the first call writes __error.txt
\* and throws the error again, the second call has no catch; the error ends
\* the build.
ThrowToCaller ==
  /\ pc = "l-deliver"
  /\ pending = "error"
  /\ delivered' = Append(delivered, Delivery)
  /\ pending' = "none"
  /\ dist' = IF call = 1 THEN dist \cup {<<fi, "__error.txt">>} ELSE dist
  /\ err' = RenderFailed
  /\ pc' = "l-failed"
  /\ UNCHANGED <<pages, reqs, call, diff, files, fi, convertVars>>

\* await fs.writeFile(singleHtmlPath, htmlSerialized), then the second call
\* of withOfflinePage.
SaveSingleFile ==
  /\ pc = "l-save"
  /\ dist' = dist \cup {<<fi, "index.html">>}
  /\ call' = 2
  /\ pc' = "l-newpage"
  /\ UNCHANGED <<pages, reqs, pending, delivered, diff, files, fi, err,
                 convertVars>>

\* const { diffPixels, total } = diffPNGs(imgA, imgB, shotDiffPath)
DiffScreenshots ==
  /\ pc = "l-diff"
  /\ \E n \in DiffCounts : diff' = <<n, TotalPixels>>
  /\ pc' = "l-report"
  /\ UNCHANGED <<pages, reqs, call, pending, delivered, batchVars, err,
                 convertVars>>

\* passed: __report.txt is written, the link is pushed, the loop goes on.
ReportPass ==
  /\ pc = "l-report"
  /\ ~Exceeds(diff)
  /\ dist' = dist \cup {<<fi, "__report.txt">>}
  /\ fi' = fi + 1
  /\ pc' = "l-loop"
  /\ UNCHANGED <<layoutVars, files, err, convertVars>>

\* !passed: __report.txt is written and the Error is thrown.
ReportFail ==
  /\ pc = "l-report"
  /\ Exceeds(diff)
  /\ dist' = dist \cup {<<fi, "__report.txt">>}
  /\ err' = LayoutChanged
  /\ pc' = "l-failed"
  /\ UNCHANGED <<layoutVars, files, fi, convertVars>>

\* After the loop: the index page is written and the browser closed.
LayoutIndexPage ==
  /\ pc = "l-loop"
  /\ Len(files) # 0
  /\ fi > Len(files)
  /\ dist' = dist \cup {<<0, "index.html">>}
  /\ pc' = "l-exit"
  /\ UNCHANGED <<layoutVars, files, fi, err, convertVars>>

NextLayout ==
  \/ LayoutNoFiles \/ LayoutBeginFile \/ NewPage \/ SetupDone \/ SetupThrows
  \/ Request \/ FnReturns \/ FnThrows \/ Finally \/ ReturnToCaller
  \/ ThrowToCaller \/ SaveSingleFile \/ DiffScreenshots \/ ReportPass
  \/ ReportFail \/ LayoutIndexPage

SpecLayout == InitLayout /\ [][NextLayout]_vars

\* The event loop runs every continuation that is ready, and a page makes
\* finitely many requests.
SpecLayoutLive == SpecLayout /\ WF_vars(NextLayout)

\* ----------------------------------------------------- layout test: claims
\* Every http(s) request the handler has seen is aborted.
ExternalAborted ==
  \A r \in reqs : r.url \in {"http", "https"} => r.verdict = "aborted"

\* A step in which the handler sees a request ends neither the body of
\* withOfflinePage nor the build.
RequestsHarmless ==
  [][reqs' \ reqs # {} => (pending' = pending /\ err' = err /\ pc' = pc)]_vars

MaxPages == 2 * MaxFiles

\* C27: every page withOfflinePage opened is closed in the end, and what a
\* call of withOfflinePage passed to its caller, value or error, it passed
\* after the page was closed.
C27_EveryPageClosed ==
  /\ \A i \in 1..MaxPages :
       (Len(pages) >= i) ~> (Len(pages) >= i /\ pages[i] = "closed")
  /\ [](\A k \in 1..Len(delivered) : delivered[k].closed)

====
